---- MODULE Spec2Model ----
(***************************************************************************)
(* A model of gen.py, the generator of LuaJIT FFI bindings for ImGui.      *)
(* Text is modelled as sequences of one-character strings, so that the     *)
(* generator's string operations (startswith, find, replace, split, join)  *)
(* are computed as Python computes them.  The three output files are       *)
(* sequences of structured units kept in the order gen.py writes them.     *)
(***************************************************************************)
EXTENDS Integers, Sequences, FiniteSets, TLC

(***************************************************************************)
(* Bounds of the model.                                                    *)
(***************************************************************************)
\* number of declarations directly under the translation unit
MaxTop == 3
\* number of parameters of a function drawn with free parameters
MaxParams == 2
\* number of declarations inside a namespace or a struct
MaxKids == 3
\* the runs differ in the hash of a cursor by 0..MaxHashSeed
MaxHashSeed == 1

(***************************************************************************)
(* Python string operations on sequences of characters.                    *)
(***************************************************************************)
\* s.startswith(p)
StartsWith(s, p) == Len(s) >= Len(p) /\ SubSeq(s, 1, Len(p)) = p

\* s.endswith(p)
EndsWith(s, p) == Len(s) >= Len(p) /\ SubSeq(s, Len(s) - Len(p) + 1, Len(s)) = p

\* s.find(p): the 0-based index of the first occurrence of p in s, or -1
Find(s, p) ==
  LET hits == {i \in 1..(Len(s) - Len(p) + 1) : SubSeq(s, i, i + Len(p) - 1) = p}
  IN IF hits = {} THEN -1
     ELSE (CHOOSE i \in hits : \A j \in hits : i <= j) - 1

\* p in s
Contains(s, p) == Find(s, p) # -1

\* s.replace(old, new): every non-overlapping occurrence, from the left
RECURSIVE Replace(_, _, _)
Replace(s, old, new) ==
  IF Len(s) < Len(old) \/ Len(old) = 0 THEN s
  ELSE IF SubSeq(s, 1, Len(old)) = old
       THEN new \o Replace(SubSeq(s, Len(old) + 1, Len(s)), old, new)
       ELSE <<s[1]>> \o Replace(Tail(s), old, new)

\* s.strip(): leading and trailing blanks removed
RECURSIVE LStrip(_)
LStrip(s) == IF s # <<>> /\ s[1] = " " THEN LStrip(Tail(s)) ELSE s

RECURSIVE RStrip(_)
RStrip(s) ==
  IF s # <<>> /\ s[Len(s)] = " " THEN RStrip(SubSeq(s, 1, Len(s) - 1)) ELSE s

Strip(s) == RStrip(LStrip(s))

\* s.split(sep) for a one-character separator: the list of parts
RECURSIVE Split(_, _)
Split(s, sep) ==
  LET i == Find(s, <<sep>>)
  IN IF i = -1 THEN <<s>>
     ELSE <<SubSeq(s, 1, i)>> \o Split(SubSeq(s, i + 2, Len(s)), sep)

\* sep.join(parts)
RECURSIVE Join(_, _)
Join(parts, sep) ==
  IF parts = <<>> THEN <<>>
  ELSE IF Len(parts) = 1 THEN parts[1]
  ELSE parts[1] \o sep \o Join(Tail(parts), sep)

\* str(n) for a natural number n
Digit(d) == <<"0","1","2","3","4","5","6","7","8","9">>[d + 1]

RECURSIVE IntToStr(_)
IntToStr(n) == IF n < 10 THEN <<Digit(n)>> ELSE IntToStr(n \div 10) \o <<Digit(n % 10)>>

\* s[a:b] as Python slices: 0-based, b exclusive, a negative index counts
\* from the end, bounds clipped
Slice(s, a, b) ==
  LET a1 == IF a < 0 THEN a + Len(s) ELSE a
      b1 == IF b < 0 THEN b + Len(s) ELSE b
      lo == IF a1 < 0 THEN 0 ELSE a1
      hi == IF b1 > Len(s) THEN Len(s) ELSE b1
  IN IF hi <= lo THEN <<>> ELSE SubSeq(s, lo + 1, hi)

\* [f(x) for x in seq]
SeqMap(F(_), seq) == [i \in 1..Len(seq) |-> F(seq[i])]

RECURSIVE SeqFilter(_, _)
SeqFilter(P(_), seq) ==
  IF seq = <<>> THEN <<>>
  ELSE (IF P(seq[1]) THEN <<seq[1]>> ELSE <<>>) \o SeqFilter(P, Tail(seq))

RECURSIVE Flatten(_)
Flatten(seqs) == IF seqs = <<>> THEN <<>> ELSE seqs[1] \o Flatten(Tail(seqs))

\* a Python dict, kept as the sequence of its items in insertion order
DictHas(d, k) == \E i \in 1..Len(d) : d[i].k = k

DictGet(d, k) == d[CHOOSE i \in 1..Len(d) : d[i].k = k].v

\* d[k] = v: a new key is appended, an existing key keeps its place
DictSet(d, k, v) ==
  IF DictHas(d, k)
  THEN [i \in 1..Len(d) |-> IF d[i].k = k THEN [k |-> k, v |-> v] ELSE d[i]]
  ELSE Append(d, [k |-> k, v |-> v])

(***************************************************************************)
(* Configuration: the exclusion lists.                                     *)
(***************************************************************************)
skip_names ==
  { <<"S","e","t","A","l","l","o","c","a","t","o","r","F","u","n","c","t","i","o","n","s">>, <<"M","e","m","A","l","l","o","c">>, <<"M","e","m","F","r","e","e">>,
    <<"L","o","a","d","I","n","i","S","e","t","t","i","n","g","s","F","r","o","m","D","i","s","k">>, <<"L","o","a","d","I","n","i","S","e","t","t","i","n","g","s","F","r","o","m","M","e","m","o","r","y">>,
    <<"S","a","v","e","I","n","i","S","e","t","t","i","n","g","s","T","o","D","i","s","k">>, <<"S","a","v","e","I","n","i","S","e","t","t","i","n","g","s","T","o","M","e","m","o","r","y">>,
    <<"I","m","G","u","i","O","n","c","e","U","p","o","n","A","F","r","a","m","e">>, <<"I","m","N","e","w","D","u","m","m","y">>, <<"I","m","D","r","a","w","C","h","a","n","n","e","l">>,
    <<"I","m","F","o","n","t","G","l","y","p","h","R","a","n","g","e","s","B","u","i","l","d","e","r","_","B","u","i","l","d","R","a","n","g","e","s">>, <<"G","e","t","T","e","x","I","D">>,
    <<"I","m","T","e","x","t","u","r","e","D","a","t","a","_","G","e","t","T","e","x","R","e","f">> }

\* unique symbol identifiers are opaque: the generator only compares them
skip_usrs ==
  { "c:@N@ImGui@F@CreateContext#*$@S@ImFontAtlas#",
    "c:@N@ImGui@F@DestroyContext#*$@S@ImGuiContext#",
    "c:@S@ImVec2",
    "c:@S@ImVec4",
    "c:@N@ImGui@F@GetStyleColorVec4#i",
    "c:@N@ImGui@F@LogText#*$@S@ImGuiContext#*1C.#",
    "c:@S@ImGuiTextBuffer@F@appendf#*1C.#",
    "c:@S@ImFontAtlas@F@GetCustomRectByIndex#I#1",
    "c:@S@ImFontAtlas@F@CalcCustomRectUV#*1$@S@ImFontAtlas@S@CustomRect#*$@S@ImVec2#S2_#",
    "c:@S@ImFontGlyphRangesBuilder@F@BuildRanges#*$@S@ImVector>#s#" }

skip_constructors == { <<"I","m","G","u","i","T","e","x","t","F","i","l","t","e","r">>, <<"I","m","D","r","a","w","L","i","s","t">> }

\* the module-level debug switch
debug == FALSE

reserved_lua_keywords ==
  { <<"a","n","d">>, <<"b","r","e","a","k">>, <<"d","o">>, <<"e","l","s","e">>, <<"e","l","s","e","i","f">>, <<"e","n","d">>, <<"f","a","l","s","e">>, <<"f","o","r">>,
    <<"f","u","n","c","t","i","o","n">>, <<"i","f">>, <<"i","n">>, <<"l","o","c","a","l">>, <<"n","i","l">>, <<"n","o","t">>, <<"o","r">>, <<"r","e","p","e","a","t">>,
    <<"r","e","t","u","r","n">>, <<"t","h","e","n">>, <<"t","r","u","e">>, <<"u","n","t","i","l">>, <<"w","h","i","l","e">> }

(***************************************************************************)
(* The declaration tree handed in by the frontend.  A cursor is a record;  *)
(* every cursor has the same fields, the unused ones empty.                *)
(***************************************************************************)
Tok(kind, sp) == [kind |-> kind, spelling |-> sp]
Id(sp) == Tok("IDENTIFIER", sp)
Punct(sp) == Tok("PUNCTUATION", sp)
Kw(sp) == Tok("KEYWORD", sp)
Lit(sp) == Tok("LITERAL", sp)

\* a type: its spelling, its kind, and its canonical type (get_canonical)
Type(sp, kind, canonKind, canonSp, toks) ==
  [spelling |-> sp, kind |-> kind,
   canonical |-> [spelling |-> canonSp, kind |-> canonKind],
   toks |-> toks]

NoType == Type(<<>>, "INVALID", "INVALID", <<>>, <<>>)

Cursor(kind, sp, usr) ==
  [kind |-> kind, spelling |-> sp, usr |-> usr, children |-> <<>>,
   args |-> <<>>, type |-> NoType, result_type |-> NoType,
   variadic |-> FALSE, default |-> <<>>, is_definition |-> TRUE,
   in_file |-> TRUE, content |-> <<>>, loc |-> <<>>]

get_usr(c) == c.usr

VARIABLES
  tree,             \* the translation unit cursor (read-only input)
  hashSeed,         \* what hash() of a cursor rests on in this run
  sourceReadable,   \* whether the input file can be read back as UTF-8 text
  pc,               \* where generate()/main() stands
  todo,             \* the cursors _traverse has still to visit, depth first
  functionRenames,  \* usr -> display name, filled by detectOverloads
  tVMFile,          \* imgui_gen.h: the FFI declarations
  tHostFile,        \* imguiApiHostGenerated.cpp: the native exports
  tLuaFile          \* imgui_gen.lua: the wrappers

vars == <<tree, hashSeed, sourceReadable, pc, todo, functionRenames, tVMFile, tHostFile, tLuaFile>>

(***************************************************************************)
(* Naming helpers.                                                         *)
(***************************************************************************)
\* hash(c) of a parameter cursor: differs from cursor to cursor and from run
\* to run
hashIn(run, c) == run + c.loc[Len(c.loc)]

hash(c) == hashIn(hashSeed, c)

\* the type part of a wrapper parameter name (lines 191-205)
simpletype(sp) ==
  IF Find(sp, <<"(","*",")">>) >= 0 THEN <<"f","u","n","c","t","i","o","n","P","t","r">>
  ELSE LET s0 == IF Find(sp, <<"[">>) >= 0
                 THEN Strip(Slice(sp, 0, Find(sp, <<"[">>))) \o <<"P","t","r">>
                 ELSE sp
           s1 == Replace(s0, <<"c","o","n","s","t"," ">>, <<>>)
           s2 == Replace(s1, <<"u","n","s","i","g","n","e","d"," ">>, <<>>)
           s3 == Replace(s2, <<" ">>, <<>>)
           s4 == Replace(s3, <<"*">>, <<>>)
           s5 == Replace(s4, <<"&">>, <<>>)
           s6 == IF s5 = <<"c","h","a","r">> THEN <<"s","t","r","i","n","g">> ELSE s5
       IN IF s6 = <<"I","m","T","e","x","t","u","r","e","R","e","f">> THEN <<"I","m","T","e","x","t","u","r","e","I","D">> ELSE s6

luaParameterSpelling(c, addSimpleType) ==
  LET parName == c.spelling
  IN IF parName = <<>> THEN <<"u","n","n","a","m","e","d","_","a","r","g","_">> \o IntToStr(hash(c))
     ELSE IF parName \in reserved_lua_keywords THEN <<"_">> \o parName
     ELSE IF addSimpleType THEN simpletype(c.type.spelling) \o <<"_">> \o parName
     ELSE parName

\* lines 226-242: the declaration built from the type and the name
CVarDecl(type_str, param_spelling) ==
  Replace(Replace(
    IF Find(type_str, <<"[">>) >= 0
    THEN Strip(Slice(type_str, 0, Find(type_str, <<"[">>)))
         \o <<" ">> \o param_spelling
         \o Slice(type_str, Find(type_str, <<"[">>), Len(type_str))
    ELSE IF Find(type_str, <<"<">>) >= 0
    THEN Strip(Slice(type_str, 0, Find(type_str, <<"<">>)))
         \o <<" ">> \o param_spelling
    ELSE IF Find(type_str, <<"(","*",")">>) >= 0
    THEN Replace(type_str, <<"(","*",")">>, <<"(","*">> \o param_spelling \o <<")">>)
    ELSE type_str \o <<" ">> \o param_spelling,
    <<" ","&">>, <<"*">>), <<" ","*">>, <<"*">>)

\* lines 214-223: the type's spelling as the header wants it
CVarType(sp, is_ffi_header) ==
  LET t0 == IF sp = <<"I","m","T","e","x","t","u","r","e","R","e","f">> THEN <<"I","m","T","e","x","t","u","r","e","I","D">> ELSE sp
      t1 == IF is_ffi_header THEN Replace(t0, <<"I","m","V","e","c","2">>, <<"I","m","V","e","c","2","_","C">>) ELSE t0
  IN IF is_ffi_header THEN Replace(t1, <<"I","m","V","e","c","4">>, <<"I","m","V","e","c","4","_","C">>) ELSE t1

getCVarStr(c, addSimpleType, is_ffi_header) ==
  CVarDecl(CVarType(c.type.spelling, is_ffi_header),
           luaParameterSpelling(c, addSimpleType))

(***************************************************************************)
(* The Default-Argument Compiler.                                          *)
(***************************************************************************)
stripSizeOf(s) ==
  LET i == Find(s, <<"(">>)
      s1 == IF i >= 0 THEN Slice(s, i + 1, Len(s)) ELSE s
      j == Find(s1, <<")">>)
  IN IF j >= 0 THEN Slice(s1, 0, j) ELSE s1

\* the kind luaifyValueWithType dispatches on (lines 263-270)
ResolvedKind(t) ==
  IF t.kind \in {"ELABORATED", "TYPEDEF"} THEN t.canonical.kind ELSE t.kind

\* lines 281-294: the integer/enum family
luaifyInt(s0) ==
  LET s == Replace(s0, <<"+">>, <<>>)
      lua_part(part) == IF StartsWith(part, <<"I","m">>) THEN <<"M",".">> \o part ELSE part
      s1 == IF StartsWith(s, <<"I","m">>)
            THEN Join(SeqMap(lua_part, SeqMap(Strip, Split(s, "|"))), <<" ","|"," ">>)
            ELSE s
  IN IF StartsWith(s1, <<"s","i","z","e","o","f">>)
     THEN <<"f","f","i",".","s","i","z","e","o","f","(">> \o <<"'">> \o stripSizeOf(s1) \o <<"'">> \o <<")">>
     ELSE s1

\* a float compiler that knows no sentinel macro
luaifyFloatNoSentinel(s) == Replace(Replace(s, <<"+">>, <<>>), <<"f">>, <<>>)

\* lines 295-300: float and double
luaifyFloat(s) ==
  IF Contains(s, <<"F","L","T","_","M","A","X">>) THEN <<"m","a","t","h",".","h","u","g","e">>
  ELSE IF Contains(s, <<"F","L","T","_","M","I","N">>) THEN <<"-","F","L","T","_","M","I","N">>
  ELSE Replace(Replace(s, <<"+">>, <<>>), <<"f">>, <<>>)

\* lines 305-316: records, references and pointers to them
luaifyRecord(s) ==
  LET params == Replace(Slice(s, Find(s, <<"(">>) + 1, Find(s, <<")">>)), <<"f">>, <<>>)
  IN IF StartsWith(s, <<"I","m","V","e","c","2">>)
     THEN <<"f","f","i",".","n","e","w","(","\"","I","m","V","e","c","2","_","C","\"",","," ">> \o params \o <<")">>
     ELSE IF StartsWith(s, <<"I","m","V","e","c","4">>)
     THEN <<"f","f","i",".","n","e","w","(","\"","I","m","V","e","c","4","_","C","\"",","," ">> \o params \o <<")">>
     ELSE <<"M",".">> \o s

luaifyValueWithType(p, s) ==
  LET k == ResolvedKind(p.type)
  IN IF k = "BOOL" THEN s
     ELSE IF k \in {"INT", "UINT", "ENUM", "LONGLONG", "ULONGLONG"}
     THEN luaifyInt(s)
     ELSE IF k \in {"FLOAT", "DOUBLE"} THEN luaifyFloat(s)
     ELSE IF k = "POINTER" /\ (s = <<"n","u","l","l","p","t","r">> \/ s = <<"N","U","L","L">>) THEN <<"n","i","l">>
     ELSE IF k = "POINTER" /\ StartsWith(s, <<"\"">>) THEN s
     ELSE IF k \in {"LVALUEREFERENCE", "RECORD", "POINTER"} THEN luaifyRecord(s)
     ELSE s

luaifyValue(cParent, s) == luaifyValueWithType(cParent, s)

\* c.get_tokens(): the raw tokens of a function declaration's extent
get_tokens(c) ==
  LET parm(p) == p.type.toks
                 \o (IF p.spelling = <<>> THEN <<>> ELSE <<Id(p.spelling)>>)
                 \o (IF p.default = <<>> THEN <<>>
                     ELSE <<Punct(<<"=">>)>> \o p.default)
      sep(i) == IF i = 1 THEN <<>> ELSE <<Punct(<<",">>)>>
      parms == Flatten([i \in 1..Len(c.args) |-> sep(i) \o parm(c.args[i])])
      dots == IF c.variadic
              THEN (IF c.args = <<>> THEN <<>> ELSE <<Punct(<<",">>)>>)
                   \o <<Punct(<<".",".",".">>)>>
              ELSE <<>>
  IN c.result_type.toks \o <<Id(c.spelling), Punct(<<"(">>)>> \o parms \o dots
     \o <<Punct(<<")">>)>>

\* lines 349-361: the 0-based index where the default argument's tokens end
RECURSIVE ScanDefaultEnd(_, _, _)
ScanDefaultEnd(token, i, braceStack) ==
  IF i >= Len(token) THEN i
  ELSE LET t == token[i + 1]
       IN IF t.kind = "PUNCTUATION" /\ t.spelling \in {<<"(">>, <<"{">>, <<"[">>}
          THEN ScanDefaultEnd(token, i + 1, braceStack + 1)
          ELSE IF t.kind = "PUNCTUATION" /\ t.spelling \in {<<")">>, <<"}">>, <<"]">>}
          THEN (IF braceStack > 0
                THEN ScanDefaultEnd(token, i + 1, braceStack - 1)
                ELSE i)
          ELSE IF t.kind = "PUNCTUATION" /\ t.spelling = <<",">> /\ braceStack = 0
          THEN i
          ELSE ScanDefaultEnd(token, i + 1, braceStack)

\* lines 363-372: the default argument's text rebuilt from its tokens
DefaultText(token, start, end) ==
  LET optArg == Join([j \in 1..(end - start) |-> token[start + j].spelling], <<" ">>)
  IN Strip(Replace(Replace(Replace(Replace(optArg,
        <<" ","(">>, <<"(">>), <<" ",")">>, <<")">>), <<" ",",">>, <<",">>), <<" ","|"," ">>, <<"|">>))

\* lines 333-378 for one parameter: the (0-based) first identifier token
\* spelled as the parameter decides; -1 when there is none
FirstNameToken(token, p) ==
  LET hits == {i \in 0..(Len(token) - 1) :
                 /\ token[i + 1].kind = "IDENTIFIER"
                 /\ token[i + 1].spelling = p.spelling
                 /\ i < Len(token) - 2}
  IN IF hits = {} THEN -1 ELSE CHOOSE i \in hits : \A j \in hits : i <= j

\* whether the scan finds a default for p, and its compiled value
HasScannedDefault(token, p) ==
  LET i == FirstNameToken(token, p)
  IN /\ i >= 0
     /\ token[i + 2].kind = "PUNCTUATION"
     /\ token[i + 2].spelling = <<"=">>
     /\ i + 1 < Len(token) - 2

ScannedDefault(token, p) ==
  LET start == FirstNameToken(token, p) + 2
  IN DefaultText(token, start, ScanDefaultEnd(token, start, 0))

\* the dict of compiled defaults; None is the empty dict here (the wrapper
\* emitter only tests it for truth and membership)
RECURSIVE OptionalParamsFrom(_, _, _)
OptionalParamsFrom(token, args, parameter_opt) ==
  IF args = <<>> THEN parameter_opt
  ELSE LET p == args[1]
       IN OptionalParamsFrom(token, Tail(args),
            IF HasScannedDefault(token, p)
            THEN DictSet(parameter_opt, luaParameterSpelling(p, TRUE),
                         luaifyValue(p, ScannedDefault(token, p)))
            ELSE parameter_opt)

getLuaFunctionOptionalParams(c) == OptionalParamsFrom(get_tokens(c), c.args, <<>>)

(***************************************************************************)
(* The Overload Resolver.                                                  *)
(***************************************************************************)
IsFunction(c) == c.kind \in {"FUNCTION_DECL", "CXX_METHOD"}

\* c.get_children(): the parameters of a function are its children
get_children(c) == IF IsFunction(c) \/ c.kind = "CONSTRUCTOR" THEN c.args ELSE c.children

\* lines 933-943: c joins its group unless a cursor of the same usr is there
AddToGroup(fctCache, uName, c) ==
  LET group == IF DictHas(fctCache, uName) THEN DictGet(fctCache, uName) ELSE <<>>
      contained == \E i \in 1..Len(group) : get_usr(group[i]) = get_usr(c)
  IN DictSet(fctCache, uName, IF contained THEN group ELSE Append(group, c))

RECURSIVE _rec_detectOverloads(_, _, _)
RECURSIVE DetectInChildren(_, _, _)
_rec_detectOverloads(fctCache, c, prefix) ==
  IF c.kind \in {"STRUCT_DECL", "TRANSLATION_UNIT", "NAMESPACE"}
  THEN DetectInChildren(fctCache, get_children(c), prefix \o c.spelling \o <<"_">>)
  ELSE IF IsFunction(c)
  THEN (IF Find(c.spelling, <<"o","p","e","r","a","t","o","r">>) = 0 THEN fctCache
        ELSE DetectInChildren(AddToGroup(fctCache, prefix \o c.spelling, c),
                              get_children(c), prefix))
  ELSE DetectInChildren(fctCache, get_children(c), prefix)

DetectInChildren(fctCache, children, prefix) ==
  IF children = <<>> THEN fctCache
  ELSE DetectInChildren(_rec_detectOverloads(fctCache, children[1], prefix),
                        Tail(children), prefix)

\* lines 919-921: the renames of one group, added to the table
RECURSIVE RenameGroup(_, _, _)
RenameGroup(renames, v, i) ==
  IF i >= Len(v) THEN renames
  ELSE RenameGroup(DictSet(renames, get_usr(v[i + 1]),
                           v[i + 1].spelling \o IntToStr(i + 1)),
                   v, i + 1)

RECURSIVE RenameGroups(_, _)
RenameGroups(renames, groups) ==
  IF groups = <<>> THEN renames
  ELSE RenameGroups(RenameGroup(renames, groups[1].v, 0), Tail(groups))

\* a resolver that drops no group
OverloadGroupsAll(c) == _rec_detectOverloads(<<>>, c, <<>>)

\* the groups detectOverloads keeps: those of two members or more
OverloadGroups(c) ==
  LET keep(g) == Len(g.v) # 1
  IN SeqFilter(keep, _rec_detectOverloads(<<>>, c, <<>>))

detectOverloads(renames, c) == RenameGroups(renames, OverloadGroups(c))

getFunctionName(c) ==
  IF DictHas(functionRenames, get_usr(c)) THEN DictGet(functionRenames, get_usr(c))
  ELSE c.spelling

(***************************************************************************)
(* Signatures.                                                             *)
(***************************************************************************)
\* the return type after one typedef layer (lines 975-977, 588-590)
EffectiveReturnType(c) ==
  IF c.result_type.kind = "TYPEDEF" THEN c.result_type.canonical
  ELSE [spelling |-> c.result_type.spelling, kind |-> c.result_type.kind]

\* lines 978-986: a host export returns the vector types as their C twins
SignatureResType(c, isHost, eff) ==
  IF isHost /\ eff = <<"I","m","V","e","c","2">> THEN <<"I","m","V","e","c","2","_","C">>
  ELSE IF isHost /\ (eff = <<"I","m","V","e","c","4">> \/ eff = <<"I","m","C","o","l","o","r">>) THEN <<"I","m","V","e","c","4","_","C">>
  ELSE c.result_type.spelling

\* lines 988-1007: what getCFunctionSignature returns
SignatureFrom(c, prefix, firstArg, isHost, is_ffi_header, resType) ==
  LET decl(p) == getCVarStr(p, FALSE, is_ffi_header)
      name(p) == luaParameterSpelling(p, FALSE)
      deref(p) == p.type.kind = "LVALUEREFERENCE" \/ EndsWith(p.type.spelling, <<" ","&">>)
      wrap(p) == IF isHost /\ p.type.spelling = <<"I","m","T","e","x","t","u","r","e","R","e","f">>
                 THEN <<<<"I","m","T","e","x","t","u","r","e","R","e","f","(">>, <<")">>>> ELSE <<<<>>, <<>>>>
  IN [signature |-> [resType |-> resType,
                     name |-> prefix \o getFunctionName(c),
                     parameters |-> (IF firstArg # <<>> THEN <<firstArg>> ELSE <<>>)
                                    \o SeqMap(decl, c.args)
                                    \o (IF c.variadic THEN <<<<".",".",".">>>> ELSE <<>>)],
      resStr |-> IF resType = <<"v","o","i","d">> THEN <<>> ELSE <<"r","e","t","u","r","n"," ">>,
      parameter_names |-> SeqMap(name, c.args),
      isVariadic |-> c.variadic,
      parameter_deref |-> SeqMap(deref, c.args),
      parameter_wrappers |-> SeqMap(wrap, c.args)]

\* firstArg is the empty string where gen.py passes None
getCFunctionSignature(c, prefix, firstArg, isHost, is_ffi_header) ==
  SignatureFrom(c, prefix, firstArg, isHost, is_ffi_header,
                SignatureResType(c, isHost, EffectiveReturnType(c).spelling))

(***************************************************************************)
(* The emitters.  A unit records the cursor it was emitted for (src, the   *)
(* cursor's location) next to what its text says.                          *)
(***************************************************************************)
\* a function prototype of imgui_gen.h; a constructor's is commented out
CVMFunctionUnit(c, sig) ==
  [k |-> "function", src |-> c.loc, commented |-> FALSE,
   resType |-> sig.resType, name |-> sig.name, parameters |-> sig.parameters]

\* a prototype that takes the declaration's own name, not the rename table's
CVMFunctionUnrenamed(c, prefix, firstArg) ==
  [CVMFunctionUnit(c, getCFunctionSignature(c, prefix, firstArg, FALSE, TRUE).signature)
     EXCEPT !.name = prefix \o c.spelling]

_generateCVMFunction(c, prefix, firstArg) ==
  CVMFunctionUnit(c, getCFunctionSignature(c, prefix, firstArg, FALSE, TRUE).signature)

\* lines 559-607: the export function, given the signature g
HostFunctionUnit(c, cNamespace, g) ==
  LET last_param_name ==
        IF \E i \in 1..Len(g.parameter_names) : g.parameter_names[i] = <<"f","m","t">>
        THEN <<"f","m","t">>
        ELSE IF g.parameter_names # <<>>
             THEN g.parameter_names[Len(g.parameter_names)] ELSE <<>>
      names == g.parameter_names \o (IF g.isVariadic THEN <<<<"a","r","g","s">>>> ELSE <<>>)
      derefs == g.parameter_deref \o (IF g.isVariadic THEN <<FALSE>> ELSE <<>>)
      wrappers == g.parameter_wrappers
                  \o (IF g.isVariadic THEN <<<<<<>>, <<>>>>>> ELSE <<>>)
      paramArr == [i \in 1..Len(names) |->
                     wrappers[i][1]
                     \o (IF derefs[i] THEN <<"*">> ELSE <<>>) \o names[i]
                     \o wrappers[i][2]]
      rt == EffectiveReturnType(c).spelling
      call == [callee |-> cNamespace \o c.spelling
                          \o (IF g.isVariadic THEN <<"V">> ELSE <<>>),
               args |-> paramArr]
      ret == IF rt = <<"I","m","V","e","c","2">>
             THEN <<[s |-> "return_converted", ctype |-> <<"I","m","V","e","c","2","_","C">>, call |-> call]>>
             ELSE IF rt = <<"I","m","V","e","c","4">> \/ rt = <<"I","m","C","o","l","o","r">>
             THEN <<[s |-> "return_converted", ctype |-> <<"I","m","V","e","c","4","_","C">>, call |-> call]>>
             ELSE <<[s |-> "call", resStr |-> g.resStr, call |-> call]>>
  IN [k |-> "function", src |-> c.loc,
      resType |-> g.signature.resType, name |-> g.signature.name,
      parameters |-> g.signature.parameters,
      body |-> (IF g.isVariadic
                THEN <<[s |-> "va_list"], [s |-> "va_start", last |-> last_param_name]>>
                ELSE <<>>)
               \o ret
               \o (IF g.isVariadic THEN <<[s |-> "va_end"]>> ELSE <<>>)]

_generateCHostFunction(c, prefix, cNamespace, firstArgName, firstArgType) ==
  HostFunctionUnit(c, cNamespace,
    getCFunctionSignature(c, prefix,
      IF firstArgName # <<>> /\ firstArgType # <<>>
      THEN firstArgType \o <<"*"," ">> \o firstArgName ELSE <<>>,
      TRUE, FALSE))

\* lines 621-626: the wrapper's own parameters and the pointer checks
LuaParameters(c) ==
  LET keep(p) == p.spelling # <<"c","t","x">>
      lua_name(p) == luaParameterSpelling(p, TRUE)
  IN SeqMap(lua_name, SeqFilter(keep, c.args))

RECURSIVE PtrChecksFrom(_, _)
PtrChecksFrom(args, checks) ==
  IF args = <<>> THEN checks
  ELSE LET p == args[1]
       IN PtrChecksFrom(Tail(args),
            IF p.spelling # <<"c","t","x">> /\ Find(p.type.spelling, <<"*">>) # -1
            THEN DictSet(checks, luaParameterSpelling(p, TRUE), p.type.spelling)
            ELSE checks)

\* lines 649-658: the default-argument guards, in the order of the dict
DefaultGuard(e) ==
  IF e.v = <<"n","i","l">> THEN [s |-> "optional_comment", param |-> e.k]
  ELSE [s |-> "default", param |-> e.k,
        value |-> IF e.v = <<"-","F","L","T","_","M","I","N">> THEN <<"M",".","I","m","V","e","c","2","("," ","-","F","L","T","_","M","I","N",","," ","0",")">> ELSE e.v]

\* lines 660-677: the nil checks
NilChecks(checks, parameter_opt, fname) ==
  LET keep(e) == ~(parameter_opt # <<>> /\ DictHas(parameter_opt, e.k)
                   /\ DictGet(parameter_opt, e.k) = <<"n","i","l">>)
      stmt(e) == [s |-> "nil_check", param |-> e.k, fname |-> fname, ctype |-> e.v]
  IN SeqMap(stmt, SeqFilter(keep, checks))

\* lines 679-712: the wrapper function once its parts are computed
LuaVMFunctionUnit(c, fname, prefixLua, prefixC, lua_call_params, parameter_opt, parameter_PtrChecks) ==
  [k |-> "function", src |-> c.loc,
   name |-> <<"M",".">> \o prefixLua \o fname,
   parameters |-> lua_call_params,
   body |-> SeqMap(DefaultGuard, parameter_opt)
            \o NilChecks(parameter_PtrChecks, parameter_opt, fname)
            \o <<[s |-> "call",
                  resStr |-> IF c.result_type.spelling # <<"v","o","i","d">>
                             THEN <<"r","e","t","u","r","n"," ">> ELSE <<>>,
                  call |-> [callee |-> <<"C",".">> \o prefixC \o fname,
                            args |-> lua_call_params]]>>]

_generateLuaVMFunction(c, prefixLua, prefixC, firstArg) ==
  LuaVMFunctionUnit(c, getFunctionName(c), prefixLua, prefixC,
    (IF firstArg # <<>> THEN <<firstArg>> ELSE <<>>)
      \o LuaParameters(c)
      \o (IF getCFunctionSignature(c, <<"i","m","g","u","i","_">>, <<>>, FALSE, FALSE).isVariadic
          THEN <<<<".",".",".">>>> ELSE <<>>),
    getLuaFunctionOptionalParams(c),
    PtrChecksFrom(c.args, <<>>))

\* lines 520-524: leading underscores are taken off the parameter names
RECURSIVE StripUnderscores(_, _, _)
StripUnderscores(parameter_names, j, i) ==
  IF j > Len(parameter_names) THEN parameter_names
  ELSE LET param == parameter_names[j]
       IN IF param # <<>> /\ param[1] = "_"
          THEN StripUnderscores([parameter_names EXCEPT ![i + 1] = Tail(param)],
                                j + 1, i + 1)
          ELSE StripUnderscores(parameter_names, j + 1, i)

\* lines 525-537: the two wrapper functions, given the parameter names
LuaConstructorUnits(c, parameter_names) ==
  LET setfield(param) == [s |-> "set_field", field |-> param, value |-> param]
      func == [k |-> "function", src |-> c.loc, name |-> <<"M",".">> \o c.spelling,
               parameters |-> parameter_names,
               body |-> IF Len(parameter_names) > 0
                        THEN <<[s |-> "local_new", ctype |-> c.spelling]>>
                             \o SeqMap(setfield, parameter_names)
                             \o <<[s |-> "return_local"]>>
                        ELSE <<[s |-> "return_new", ctype |-> c.spelling]>>]
      funcPtr == [k |-> "function", src |-> c.loc,
                  name |-> <<"M",".">> \o c.spelling \o <<"P","t","r">>,
                  parameters |-> parameter_names,
                  body |-> IF Len(parameter_names) > 0 THEN <<>>
                           ELSE <<[s |-> "return_new",
                                   ctype |-> c.spelling \o <<"[","1","]">>]>>]
  IN <<func, funcPtr>>

\* the two wrapper functions of a constructor
_generateLuaConstructor(c) ==
  LuaConstructorUnits(c,
    StripUnderscores(
      getCFunctionSignature(c, <<>>, <<>>, FALSE, FALSE).parameter_names, 1, 0))

\* the Exclusion Filter, as each of its four call sites spells it
IsSkipped(c) == get_usr(c) \in skip_usrs \/ c.spelling \in skip_names

IsSkippedOrTemplate(c) ==
  IsSkipped(c) \/ c.kind = "CLASS_TEMPLATE" \/ c.kind = "FUNCTION_TEMPLATE"

\* self.getCursorDebug(c, prefix): empty unless the generator runs in debug
getCursorDebug(c, prefix) == IF ~debug THEN <<>> ELSE prefix \o get_usr(c)

\* getContent(c, False): the source text of c's extent, stripped; the empty
\* string when the file cannot be read (lines 131-136)
getContent(c) == IF ~sourceReadable THEN <<>> ELSE Strip(c.content)

\* the units of a struct or union in imgui_gen.h: the block, then the
\* prototypes of its functions (functionCache)
RECURSIVE _generateCVMStruct(_, _)
_generateCVMStruct(c, level) ==
  LET open == [k |-> IF c.kind = "STRUCT_DECL" THEN "struct_open" ELSE "union_open",
               src |-> c.loc, name |-> c.spelling, level |-> level]
      close == [k |-> IF c.kind = "STRUCT_DECL" THEN "struct_close" ELSE "union_close",
                src |-> c.loc, name |-> c.spelling, level |-> level]
      inBlock(ch) ==
        IF ch.kind = "FIELD_DECL"
        THEN (IF Find(ch.type.spelling, <<"(">>) >= 0
              THEN <<[k |-> "field", src |-> ch.loc, callback |-> TRUE,
                      decl |-> <<"v","o","i","d","*"," ">> \o ch.spelling]>>
              ELSE <<[k |-> "field", src |-> ch.loc, callback |-> FALSE,
                      decl |-> getCVarStr(ch, FALSE, TRUE)]>>)
        ELSE IF ch.kind = "CONSTRUCTOR" /\ level = 0 THEN <<>>
        ELSE IF ch.kind = "STRUCT_DECL" \/ ch.kind = "UNION_DECL"
        THEN <<[k |-> "debug_line", src |-> ch.loc]>> \o _generateCVMStruct(ch, level + 1)
        ELSE <<>>
      inCache(ch) ==
        IF ch.kind = "FIELD_DECL" THEN <<>>
        ELSE IF ch.kind = "CONSTRUCTOR" /\ level = 0
        THEN <<[_generateCVMFunction(ch, <<"i","m","g","u","i","_">>, <<>>) EXCEPT !.commented = TRUE]>>
        ELSE IF ch.kind = "STRUCT_DECL" \/ ch.kind = "UNION_DECL" THEN <<>>
        ELSE IF IsFunction(ch) /\ Find(ch.spelling, <<"o","p","e","r","a","t","o","r">>) = -1 /\ level = 0
        THEN (IF IsSkipped(ch) THEN <<>>
              ELSE <<_generateCVMFunction(ch, <<"i","m","g","u","i","_">> \o c.spelling \o <<"_">>,
                                          c.spelling \o <<"*"," ">> \o c.spelling \o <<"_","c","t","x">>)>>)
        ELSE <<>>
  IN <<open>> \o Flatten(SeqMap(inBlock, c.children)) \o <<close>>
     \o Flatten(SeqMap(inCache, c.children))

_generateLVMStruct(c) ==
  LET unit(ch) ==
        IF IsSkippedOrTemplate(ch) THEN <<>>
        ELSE IF IsFunction(ch) /\ Find(ch.spelling, <<"o","p","e","r","a","t","o","r">>) = -1
        THEN <<_generateLuaVMFunction(ch, c.spelling \o <<"_">>,
                                      <<"i","m","g","u","i","_">> \o c.spelling \o <<"_">>,
                                      c.spelling \o <<"_","c","t","x">>)>>
        ELSE IF ch.kind = "CONSTRUCTOR"
        THEN (IF ch.spelling \in skip_constructors THEN <<>>
              ELSE _generateLuaConstructor(ch))
        ELSE <<>>
  IN <<[k |-> "struct_comment", src |-> c.loc, name |-> c.spelling]>>
     \o Flatten(SeqMap(unit, c.children))
     \o <<[k |-> "end_comment", src |-> c.loc]>>

_generateCHostStruct(c) ==
  LET unit(ch) ==
        IF IsSkippedOrTemplate(ch) THEN <<>>
        ELSE IF IsFunction(ch) /\ Find(ch.spelling, <<"o","p","e","r","a","t","o","r">>) = -1
        THEN <<_generateCHostFunction(ch, <<"i","m","g","u","i","_">> \o c.spelling \o <<"_">>,
                                      c.spelling \o <<"_","c","t","x","-",">">>,
                                      c.spelling \o <<"_","c","t","x">>, c.type.spelling)>>
        ELSE <<>>
  IN Flatten(SeqMap(unit, c.children))

\* an enum: c.type stands for c.enum_type; the value of a constant is the
\* text of its first UNEXPOSED_EXPR or BINARY_OPERATOR child
IsEnumConstant(ch) == ch.kind = "ENUM_CONSTANT_DECL"

EnumValue(ch) ==
  LET isExpr(ca) == ca.kind = "UNEXPOSED_EXPR" \/ ca.kind = "BINARY_OPERATOR"
      exprs == SeqFilter(isExpr, ch.children)
  IN IF exprs = <<>> THEN <<>> ELSE <<" ","="," ">> \o getContent(exprs[1])

_generateCVMEnum(c) ==
  LET constant(ch) == [name |-> ch.spelling, value |-> EnumValue(ch), src |-> ch.loc]
      constants == SeqMap(constant, SeqFilter(IsEnumConstant, c.children))
  IN IF Len(constants) = 0
     THEN <<[k |-> "typedef", src |-> c.loc,
             text |-> <<"t","y","p","e","d","e","f"," ">> \o c.type.canonical.spelling \o <<" ">> \o c.spelling]>>
     ELSE <<[k |-> "enum", src |-> c.loc, name |-> c.spelling,
             constants |-> constants]>>

_generateLVMEnum(c) ==
  LET constant(ch) ==
        [k |-> "enum_constant", src |-> ch.loc,
         lname |-> <<"M",".">> \o (IF StartsWith(ch.spelling, <<"I","m","G","u","i">>)
                             THEN Slice(ch.spelling, 5, Len(ch.spelling))
                             ELSE ch.spelling),
         cname |-> <<"C",".">> \o ch.spelling]
  IN <<[k |-> "enum_comment", src |-> c.loc, name |-> c.spelling]>>
     \o SeqMap(constant, SeqFilter(IsEnumConstant, c.children))
     \o <<[k |-> "end_comment", src |-> c.loc]>>

(***************************************************************************)
(* main()'s pass over imgui_gen.h: re.sub(r"\bImVec2\b", "ImVec2_C", ...)  *)
(* and the same for ImVec4, on every piece of text of a unit.              *)
(***************************************************************************)
WordChars ==
  { "a","b","c","d","e","f","g","h","i","j","k","l","m","n","o","p","q","r",
    "s","t","u","v","w","x","y","z","A","B","C","D","E","F","G","H","I","J",
    "K","L","M","N","O","P","Q","R","S","T","U","V","W","X","Y","Z","0","1",
    "2","3","4","5","6","7","8","9","_" }

\* re.sub(r"\b" + word + r"\b", new, s), scanning s from 0-based position i
RECURSIVE SubWordFrom(_, _, _, _)
SubWordFrom(s, i, word, new) ==
  IF i + Len(word) > Len(s) THEN SubSeq(s, i + 1, Len(s))
  ELSE IF /\ SubSeq(s, i + 1, i + Len(word)) = word
          /\ (i = 0 \/ s[i] \notin WordChars)
          /\ (i + Len(word) = Len(s) \/ s[i + Len(word) + 1] \notin WordChars)
       THEN new \o SubWordFrom(s, i + Len(word), word, new)
       ELSE <<s[i + 1]>> \o SubWordFrom(s, i + 1, word, new)

SubstituteVec(s) ==
  SubWordFrom(SubWordFrom(s, 0, <<"I","m","V","e","c","2">>, <<"I","m","V","e","c","2","_","C">>), 0, <<"I","m","V","e","c","4">>, <<"I","m","V","e","c","4","_","C">>)

SubstituteUnit(u) ==
  IF u.k = "function"
  THEN [u EXCEPT !.resType = SubstituteVec(@), !.name = SubstituteVec(@),
                 !.parameters = SeqMap(SubstituteVec, @)]
  ELSE IF u.k = "field" THEN [u EXCEPT !.decl = SubstituteVec(@)]
  ELSE IF u.k \in {"typedef", "forward"} THEN [u EXCEPT !.text = SubstituteVec(@)]
  ELSE IF u.k \in {"struct_open", "struct_close", "union_open", "union_close"}
  THEN [u EXCEPT !.name = SubstituteVec(@)]
  ELSE IF u.k = "enum"
  THEN [u EXCEPT !.name = SubstituteVec(@),
                 !.constants = [i \in 1..Len(@) |->
                                  [@[i] EXCEPT !.name = SubstituteVec(@),
                                               !.value = SubstituteVec(@)]]]
  ELSE u

(***************************************************************************)
(* The declaration trees the model draws its input from.                   *)
(***************************************************************************)
VoidT == Type(<<"v","o","i","d">>, "VOID", "VOID", <<"v","o","i","d">>, <<Kw(<<"v","o","i","d">>)>>)
IntT == Type(<<"i","n","t">>, "INT", "INT", <<"i","n","t">>, <<Kw(<<"i","n","t">>)>>)
FloatT == Type(<<"f","l","o","a","t">>, "FLOAT", "FLOAT", <<"f","l","o","a","t">>, <<Kw(<<"f","l","o","a","t">>)>>)
DoubleT == Type(<<"d","o","u","b","l","e">>, "DOUBLE", "DOUBLE", <<"d","o","u","b","l","e">>, <<Kw(<<"d","o","u","b","l","e">>)>>)
FlagsT == Type(<<"I","m","F","l","a","g","s">>, "TYPEDEF", "INT", <<"i","n","t">>, <<Id(<<"I","m","F","l","a","g","s">>)>>)
RealT == Type(<<"r","e","a","l">>, "TYPEDEF", "FLOAT", <<"f","l","o","a","t">>, <<Id(<<"r","e","a","l">>)>>)
CharPtrT ==
  Type(<<"c","o","n","s","t"," ","c","h","a","r"," ","*">>, "POINTER", "POINTER", <<"c","o","n","s","t"," ","c","h","a","r"," ","*">>,
       <<Kw(<<"c","o","n","s","t">>), Kw(<<"c","h","a","r">>), Punct(<<"*">>)>>)
FloatPtrT ==
  Type(<<"f","l","o","a","t"," ","*">>, "POINTER", "POINTER", <<"f","l","o","a","t"," ","*">>, <<Kw(<<"f","l","o","a","t">>), Punct(<<"*">>)>>)
VoidPtrT ==
  Type(<<"v","o","i","d"," ","*">>, "POINTER", "POINTER", <<"v","o","i","d"," ","*">>, <<Kw(<<"v","o","i","d">>), Punct(<<"*">>)>>)
CtxPtrT ==
  Type(<<"I","m","G","u","i","C","o","n","t","e","x","t"," ","*">>, "POINTER", "POINTER", <<"I","m","G","u","i","C","o","n","t","e","x","t"," ","*">>,
       <<Id(<<"I","m","G","u","i","C","o","n","t","e","x","t">>), Punct(<<"*">>)>>)
Vec2RefT ==
  Type(<<"c","o","n","s","t"," ","I","m","V","e","c","2"," ","&">>, "LVALUEREFERENCE", "LVALUEREFERENCE", <<"c","o","n","s","t"," ","I","m","V","e","c","2"," ","&">>,
       <<Kw(<<"c","o","n","s","t">>), Id(<<"I","m","V","e","c","2">>), Punct(<<"&">>)>>)
Vec2T == Type(<<"I","m","V","e","c","2">>, "ELABORATED", "RECORD", <<"I","m","V","e","c","2">>, <<Id(<<"I","m","V","e","c","2">>)>>)
CallbackT ==
  Type(<<"v","o","i","d"," ","(","*",")","(","i","n","t",")">>, "POINTER", "POINTER", <<"v","o","i","d"," ","(","*",")","(","i","n","t",")">>,
       <<Kw(<<"v","o","i","d">>), Punct(<<"(">>), Punct(<<"*">>), Punct(<<")">>), Punct(<<"(">>),
         Kw(<<"i","n","t">>), Punct(<<")">>)>>)

\* typedef void (*ImDrawCallback)(int): a pointer type spelled without a star
DrawCallbackT ==
  Type(<<"I","m","D","r","a","w","C","a","l","l","b","a","c","k">>, "TYPEDEF", "POINTER", <<"v","o","i","d"," ","(","*",")","(","i","n","t",")">>,
       <<Id(<<"I","m","D","r","a","w","C","a","l","l","b","a","c","k">>)>>)

ColorT == Type(<<"I","m","C","o","l","o","r">>, "RECORD", "RECORD", <<"I","m","C","o","l","o","r">>, <<Id(<<"I","m","C","o","l","o","r">>)>>)
SizeT == Type(<<"I","m","S","i","z","e">>, "TYPEDEF", "RECORD", <<"I","m","V","e","c","2">>, <<Id(<<"I","m","S","i","z","e">>)>>)

Parm(name, type, default) ==
  [Cursor("PARM_DECL", name, "") EXCEPT !.type = type, !.default = default]

Func(kind, name, usr, result_type, args) ==
  [Cursor(kind, name, usr) EXCEPT !.result_type = result_type, !.args = args]

\* the parameters a function may be drawn with
ParamPool ==
  { Parm(<<"a">>, IntT, <<>>),
    Parm(<<"a">>, IntT, <<Punct(<<"+">>), Lit(<<"1">>)>>),
    Parm(<<"a">>, IntT, <<Kw(<<"s","i","z","e","o","f">>), Punct(<<"(">>), Kw(<<"f","l","o","a","t">>), Punct(<<")">>)>>),
    Parm(<<"a">>, FlagsT, <<Id(<<"I","m","A">>), Punct(<<"|">>), Id(<<"I","m","B">>)>>),
    Parm(<<"a">>, FlagsT, <<Lit(<<"1">>), Punct(<<"|">>), Id(<<"I","m","A">>)>>),
    Parm(<<"a">>, FlagsT, <<Id(<<"I","m","A">>), Punct(<<"|">>), Lit(<<"2">>), Punct(<<"|">>), Id(<<"I","m","B">>)>>),
    Parm(<<"b">>, FloatT, <<>>),
    Parm(<<"b">>, FloatT, <<Id(<<"F","L","T","_","M","A","X">>)>>),
    Parm(<<"b">>, FloatT, <<Id(<<"F","L","T","_","M","I","N">>)>>),
    Parm(<<"b">>, RealT, <<Punct(<<"-">>), Id(<<"F","L","T","_","M","I","N">>)>>),
    Parm(<<"b">>, DoubleT, <<Id(<<"F","L","T","_","M","A","X">>)>>),
    Parm(<<"b">>, FloatT, <<Punct(<<"+">>), Lit(<<"1",".","5","f">>)>>),
    Parm(<<"f","m","t">>, CharPtrT, <<>>),
    Parm(<<"f","m","t">>, CharPtrT, <<Id(<<"N","U","L","L">>)>>),
    Parm(<<"f","m","t">>, CharPtrT, <<Lit(<<"\"","%","d","\"">>)>>),
    Parm(<<"c","t","x">>, CtxPtrT, <<>>),
    Parm(<<"c","t","x">>, CtxPtrT, <<Kw(<<"n","u","l","l","p","t","r">>)>>),
    Parm(<<"s","z">>, Vec2RefT,
         <<Id(<<"I","m","V","e","c","2">>), Punct(<<"(">>), Lit(<<"0">>), Punct(<<",">>), Lit(<<"0">>), Punct(<<")">>)>>),
    Parm(<<"F","o","o">>, IntT, <<Lit(<<"0">>)>>),
    Parm(<<"e","n","d">>, FloatPtrT, <<>>),
    Parm(<<"c","b">>, DrawCallbackT, <<>>),
    Parm(<<>>, VoidPtrT, <<>>) }

SeqsUpTo(P, n) == UNION {[1..k -> P] : k \in 0..n}

\* a parameter list of C++: names differ, and once a parameter has a
\* default every later one has
LegalParams(args) ==
  /\ \A i, j \in 1..Len(args) :
       i < j /\ args[i].spelling # <<>> => args[i].spelling # args[j].spelling
  /\ \A i, j \in 1..Len(args) :
       i < j /\ args[i].default # <<>> => args[j].default # <<>>

ParamLists == {args \in SeqsUpTo(ParamPool, MaxParams) : LegalParams(args)}

\* enum ImCol { ImGuiCol_A, ImCol_B = 1 << 2 }
ImCol ==
  [Cursor("ENUM_DECL", <<"I","m","C","o","l">>, "c:@E@ImCol") EXCEPT
     !.type = IntT,
     !.children =
       << Cursor("ENUM_CONSTANT_DECL", <<"I","m","G","u","i","C","o","l","_","A">>, "c:@E@ImCol@ImGuiCol_A"),
          [Cursor("ENUM_CONSTANT_DECL", <<"I","m","C","o","l","_","B">>, "c:@E@ImCol@ImCol_B") EXCEPT
             !.children = <<[Cursor("BINARY_OPERATOR", <<>>, "") EXCEPT
                               !.content = <<"1"," ","<","<"," ","2">>]>>] >>]

\* functions whose parameter defaults to a constant of ImCol
ColDefaultPool ==
  { Func("FUNCTION_DECL", <<"F","o","o">>, "c:@F@Foo#I#", VoidT,
         <<Parm(<<"a">>, FlagsT, <<Id(<<"I","m","G","u","i","C","o","l","_","A">>)>>)>>),
    Func("FUNCTION_DECL", <<"F","o","o">>, "c:@F@Foo#I#", VoidT,
         <<Parm(<<"a">>, FlagsT, <<Id(<<"I","m","C","o","l","_","B">>)>>)>>) }

\* declarations directly under the translation unit
FreeFoo == Func("FUNCTION_DECL", <<"F","o","o">>, "c:@F@Foo#", VoidT, <<>>)

SimplePool ==
  { FreeFoo,
    Func("FUNCTION_DECL", <<"F","o","o">>, "c:@F@Foo#I#", Vec2T, <<Parm(<<"a">>, IntT, <<>>)>>),
    Func("FUNCTION_DECL", <<"F","o","o","1">>, "c:@F@Foo1#", IntT, <<>>),
    Func("FUNCTION_DECL", <<"M","e","m","F","r","e","e">>, "c:@F@MemFree#*v#", VoidT,
         <<Parm(<<"p","t","r">>, VoidPtrT, <<>>)>>),
    Func("FUNCTION_DECL", <<"o","p","e","r","a","t","o","r","+">>, "c:@F@operator+#I#I#", IntT,
         <<Parm(<<"a">>, IntT, <<>>), Parm(<<"b">>, IntT, <<>>)>>),
    [FreeFoo EXCEPT !.in_file = FALSE],
    ImCol,
    [Cursor("TYPEDEF_DECL", <<"I","m","F","l","a","g","s">>, "c:@T@ImFlags") EXCEPT
       !.content = <<"t","y","p","e","d","e","f"," ","i","n","t"," ","I","m","F","l","a","g","s">>],
    [Cursor("STRUCT_DECL", <<"I","m","G","u","i","C","o","n","t","e","x","t">>, "c:@S@ImGuiContext") EXCEPT
       !.is_definition = FALSE],
    [Cursor("STRUCT_DECL", <<"I","m","V","e","c","2">>, "c:@S@ImVec2") EXCEPT
       !.type = Vec2T,
       !.children = <<[Cursor("FIELD_DECL", <<"x">>, "c:@S@ImVec2@FI@x") EXCEPT
                         !.type = FloatT],
                      Func("CONSTRUCTOR", <<"I","m","V","e","c","2">>, "c:@S@ImVec2@F@ImVec2#", VoidT, <<>>)>>],
    Cursor("FUNCTION_TEMPLATE", <<"I","m","M","a","x">>, "c:@FT@>1#TImMax#"),
    [Cursor("VAR_DECL", <<"G","I","m","G","u","i">>, "c:@GImGui") EXCEPT !.type = CtxPtrT] }

\* declarations inside namespace ImGui
NamespacePool ==
  { Func("FUNCTION_DECL", <<"F","o","o">>, "c:@N@ImGui@F@Foo#", VoidT, <<>>),
    Func("FUNCTION_DECL", <<"F","o","o">>, "c:@N@ImGui@F@Foo#I#", IntT, <<Parm(<<"a">>, IntT, <<>>)>>),
    [Func("FUNCTION_DECL", <<"L","o","g","T","e","x","t">>, "c:@N@ImGui@F@LogText#*$@S@ImGuiContext#*1C.#",
          VoidT, <<Parm(<<"c","t","x">>, CtxPtrT, <<>>), Parm(<<"f","m","t">>, CharPtrT, <<>>)>>)
       EXCEPT !.variadic = TRUE],
    [Func("FUNCTION_DECL", <<"L","o","g","T","e","x","t">>, "c:@N@ImGui@F@LogText#*1C.#",
          VoidT, <<Parm(<<"f","m","t">>, CharPtrT, <<>>)>>)
       EXCEPT !.variadic = TRUE] }

\* declarations inside struct ImGuiTextBuffer
StructName == <<"I","m","G","u","i","T","e","x","t","B","u","f","f","e","r">>

StructPool ==
  { [Cursor("FIELD_DECL", <<"x">>, "c:@S@ImGuiTextBuffer@FI@x") EXCEPT !.type = FloatT],
    [Cursor("FIELD_DECL", <<"c","b">>, "c:@S@ImGuiTextBuffer@FI@cb") EXCEPT !.type = CallbackT],
    Func("CXX_METHOD", <<"F","o","o">>, "c:@S@ImGuiTextBuffer@F@Foo#", VoidT, <<>>),
    Func("CXX_METHOD", <<"F","o","o">>, "c:@S@ImGuiTextBuffer@F@Foo#I#", IntT,
         <<Parm(<<"a">>, IntT, <<>>)>>),
    [Func("CXX_METHOD", <<"a","p","p","e","n","d","f">>, "c:@S@ImGuiTextBuffer@F@appendf#*1C.#", VoidT,
          <<Parm(<<"f","m","t">>, CharPtrT, <<>>)>>) EXCEPT !.variadic = TRUE],
    Func("CXX_METHOD", <<"o","p","e","r","a","t","o","r","[","]">>, "c:@S@ImGuiTextBuffer@F@operator[]#I#", IntT,
         <<Parm(<<"i">>, IntT, <<>>)>>),
    Func("CONSTRUCTOR", StructName, "c:@S@ImGuiTextBuffer@F@ImGuiTextBuffer#", VoidT, <<>>),
    Func("CONSTRUCTOR", StructName, "c:@S@ImGuiTextBuffer@F@ImGuiTextBuffer#f#f#", VoidT,
         <<Parm(<<"_","x">>, FloatT, <<>>), Parm(<<"y">>, FloatT, <<>>)>>),
    [Cursor("STRUCT_DECL", <<"I","m","D","r","a","w","C","h","a","n","n","e","l">>, "c:@S@ImGuiTextBuffer@S@ImDrawChannel") EXCEPT
       !.type = Type(<<"I","m","G","u","i","T","e","x","t","B","u","f","f","e","r",":",":","I","m","D","r","a","w","C","h","a","n","n","e","l">>, "RECORD", "RECORD",
                     <<"I","m","G","u","i","T","e","x","t","B","u","f","f","e","r",":",":","I","m","D","r","a","w","C","h","a","n","n","e","l">>, <<>>),
       !.children = <<[Cursor("FIELD_DECL", <<"n">>, "c:@S@ImGuiTextBuffer@S@ImDrawChannel@FI@n")
                         EXCEPT !.type = IntT]>>] }

Namespace(children) ==
  [Cursor("NAMESPACE", <<"I","m","G","u","i">>, "c:@N@ImGui") EXCEPT !.children = children]

Struct(children) ==
  [Cursor("STRUCT_DECL", StructName, "c:@S@ImGuiTextBuffer") EXCEPT
     !.type = Type(StructName, "RECORD", "RECORD", StructName, <<>>),
     !.children = children]

NonEmpty(seqs) == {q \in seqs : q # <<>>}

\* declarations drawn on their own, each the only one of its tree
SinglePool ==
  { Func("FUNCTION_DECL", <<"F","o","o">>, "c:@F@Foo#I#", VoidT,
         <<Parm(<<"a">>, IntT, <<Lit(<<"1">>), Punct(<<"+">>), Lit(<<"2">>)>>)>>),
    Func("FUNCTION_DECL", <<"F","o","o">>, "c:@F@Foo#f#", VoidT,
         <<Parm(<<"b">>, FloatT, <<Id(<<"h","a","l","f">>), Punct(<<"+">>), Lit(<<"1",".","5","f">>)>>)>>),
    [Func("FUNCTION_DECL", <<"T","r","e","e","N","o","d","e">>, "c:@F@TreeNode#*1C.#", IntT,
          <<Parm(<<"f","m","t">>, CharPtrT, <<>>)>>)
       EXCEPT !.variadic = TRUE],
    Func("FUNCTION_DECL", <<"H","S","V">>, "c:@F@HSV#f#", ColorT, <<Parm(<<"h">>, FloatT, <<>>)>>),
    Func("FUNCTION_DECL", <<"G","e","t","S","i","z","e">>, "c:@F@GetSize#", SizeT, <<>>),
    Struct(<<Func("CONSTRUCTOR", StructName, "c:@S@ImGuiTextBuffer@F@ImGuiTextBuffer#f#f#",
                  VoidT, <<Parm(<<"x">>, FloatT, <<>>), Parm(<<"_","y">>, FloatT, <<>>)>>)>>) }

\* what the translation unit may hold
TopLevels ==
  NonEmpty(SeqsUpTo(SimplePool, MaxTop))
  \cup {<<Namespace(kids)>> : kids \in NonEmpty(SeqsUpTo(NamespacePool, MaxKids))}
  \cup {<<Struct(kids)>> : kids \in NonEmpty(SeqsUpTo(StructPool, MaxKids))}
  \cup {<<Func("FUNCTION_DECL", <<"F","o","o">>, "c:@F@Foo#", rt, args)>> :
          rt \in {VoidT, FloatT}, args \in ParamLists}
  \cup {<<Struct(<<Func("CXX_METHOD", <<"F","o","o">>, "c:@S@ImGuiTextBuffer@F@Foo#", VoidT, args)>>)>> :
          args \in ParamLists}
  \cup {<<d>> : d \in SinglePool}
  \cup {<<ImCol, d>> : d \in ColDefaultPool}

\* every cursor gets its location: its path from the root
RECURSIVE Locate(_, _)
Locate(c, path) ==
  [c EXCEPT !.loc = path,
            !.children = [i \in 1..Len(@) |-> Locate(@[i], Append(path, i))],
            !.args = [i \in 1..Len(@) |-> Locate(@[i], Append(path, i))]]

TranslationUnit(children) ==
  Locate([Cursor("TRANSLATION_UNIT", <<"i","m","g","u","i",".","h">>, "c:") EXCEPT !.children = children], <<>>)

\* the cursors of the tree under c, c included
RECURSIVE Cursors(_)
Cursors(c) ==
  {c} \cup UNION {Cursors(c.children[i]) : i \in 1..Len(c.children)}
      \cup {c.args[i] : i \in 1..Len(c.args)}

HasUnnamedParam(t) == \E c \in Cursors(t) : c.kind = "PARM_DECL" /\ c.spelling = <<>>

ReadsSource(t) == \E c \in Cursors(t) : c.content # <<>>

(***************************************************************************)
(* The run: generate() opens the three files and writes their prologues,   *)
(* detects the overloads, traverses the tree and closes the files; main()  *)
(* then rewrites imgui_gen.h.                                              *)
(***************************************************************************)
Init ==
  /\ \E top \in TopLevels : tree = TranslationUnit(top)
  /\ hashSeed \in (IF HasUnnamedParam(tree) THEN 0..MaxHashSeed ELSE {0})
  /\ sourceReadable \in (IF ReadsSource(tree) THEN BOOLEAN ELSE {TRUE})
  /\ pc = "start"
  /\ todo = <<>>
  /\ functionRenames = <<>>
  /\ tVMFile = <<>>
  /\ tHostFile = <<>>
  /\ tLuaFile = <<>>

Prologue == [k |-> "prologue", src |-> <<>>]
Epilogue == [k |-> "epilogue", src |-> <<>>]

\* lines 804-883
Generate_Open ==
  /\ pc = "start"
  /\ tLuaFile' = Append(tLuaFile, Prologue)
  /\ tVMFile' = Append(tVMFile, Prologue)
  /\ tHostFile' = Append(tHostFile, Prologue)
  /\ pc' = "detect"
  /\ UNCHANGED <<tree, hashSeed, sourceReadable, todo, functionRenames>>

\* line 884
DetectOverloads ==
  /\ pc = "detect"
  /\ functionRenames' = detectOverloads(functionRenames, tree)
  /\ todo' = <<tree>>
  /\ pc' = "traverse"
  /\ UNCHANGED <<tree, hashSeed, sourceReadable, tVMFile, tHostFile, tLuaFile>>

Visiting == pc = "traverse" /\ todo # <<>>

NoOutput == UNCHANGED <<tVMFile, tHostFile, tLuaFile>>

Frame == UNCHANGED <<tree, hashSeed, sourceReadable, pc, functionRenames>>

\* lines 746-747: a declaration of another file
Traverse_OtherFile ==
  /\ Visiting
  /\ ~Head(todo).in_file
  /\ todo' = Tail(todo)
  /\ NoOutput /\ Frame

\* lines 749-755: an excluded declaration or a template
Traverse_Skipped ==
  /\ Visiting
  /\ Head(todo).in_file
  /\ IsSkippedOrTemplate(Head(todo))
  /\ todo' = Tail(todo)
  /\ NoOutput /\ Frame

Reached(c) == Visiting /\ c = Head(todo) /\ c.in_file /\ ~IsSkippedOrTemplate(c)

\* lines 757-765
Traverse_Function ==
  /\ Visiting
  /\ \E c \in {Head(todo)} :
    /\ Reached(c)
    /\ IsFunction(c)
    /\ IF Find(c.spelling, <<"o","p","e","r","a","t","o","r">>) = 0
       THEN NoOutput
       ELSE /\ tVMFile' = Append(tVMFile, _generateCVMFunction(c, <<"i","m","g","u","i","_">>, <<>>))
            /\ tHostFile' = Append(tHostFile,
                 _generateCHostFunction(c, <<"i","m","g","u","i","_">>, <<"I","m","G","u","i",":",":">>, <<>>, <<>>))
            /\ tLuaFile' = Append(tLuaFile,
                 _generateLuaVMFunction(c, <<>>, <<"i","m","g","u","i","_">>, <<>>))
    /\ todo' = Tail(todo)
    /\ Frame

\* lines 766-769
Traverse_Typedef ==
  /\ Visiting
  /\ \E c \in {Head(todo)} :
    /\ Reached(c)
    /\ c.kind = "TYPEDEF_DECL"
    /\ tVMFile' = Append(tVMFile, [k |-> "typedef", src |-> c.loc, text |-> getContent(c)])
    /\ todo' = Tail(todo)
    /\ UNCHANGED <<tHostFile, tLuaFile>>
    /\ Frame

\* lines 770-779
Traverse_Struct ==
  /\ Visiting
  /\ \E c \in {Head(todo)} :
    /\ Reached(c)
    /\ c.kind \in {"STRUCT_DECL", "UNION_DECL"}
    /\ IF c.is_definition
       THEN /\ tVMFile' = tVMFile \o _generateCVMStruct(c, 0)
            /\ tHostFile' = tHostFile \o _generateCHostStruct(c)
            /\ tLuaFile' = tLuaFile \o _generateLVMStruct(c)
       ELSE /\ tVMFile' = Append(tVMFile,
                 [k |-> "forward", src |-> c.loc,
                  text |-> <<"t","y","p","e","d","e","f"," ","s","t","r","u","c","t"," ">> \o c.spelling \o <<" ">> \o c.spelling])
            /\ UNCHANGED <<tHostFile, tLuaFile>>
    /\ todo' = Tail(todo)
    /\ Frame

\* lines 780-783
Traverse_Enum ==
  /\ Visiting
  /\ \E c \in {Head(todo)} :
    /\ Reached(c)
    /\ c.kind = "ENUM_DECL"
    /\ tVMFile' = tVMFile \o _generateCVMEnum(c)
    /\ tLuaFile' = tLuaFile \o _generateLVMEnum(c)
    /\ todo' = Tail(todo)
    /\ UNCHANGED tHostFile
    /\ Frame

\* a traversal that visits the children last to first
Traverse_ContainerReversed ==
  /\ Visiting
  /\ \E c \in {Head(todo)} :
    /\ Reached(c)
    /\ c.kind \in {"TRANSLATION_UNIT", "NAMESPACE"}
    /\ todo' = [i \in 1..Len(get_children(c)) |->
                  get_children(c)[Len(get_children(c)) + 1 - i]] \o Tail(todo)
    /\ NoOutput /\ Frame

\* lines 784-785 and 795-796: the children are visited next, in order
Traverse_Container ==
  /\ Visiting
  /\ \E c \in {Head(todo)} :
    /\ Reached(c)
    /\ c.kind \in {"TRANSLATION_UNIT", "NAMESPACE"}
    /\ todo' = get_children(c) \o Tail(todo)
    /\ NoOutput /\ Frame

\* lines 786-796: any other kind is reported, and its children visited
Traverse_Unhandled ==
  /\ Visiting
  /\ \E c \in {Head(todo)} :
    /\ Reached(c)
    /\ ~IsFunction(c)
    /\ c.kind \notin {"TYPEDEF_DECL", "STRUCT_DECL", "UNION_DECL", "ENUM_DECL",
                      "TRANSLATION_UNIT", "NAMESPACE"}
    /\ todo' = get_children(c) \o Tail(todo)
    /\ NoOutput /\ Frame

\* a close that ends imgui_gen.h with an epilogue as well
Generate_CloseAll ==
  /\ pc = "traverse"
  /\ todo = <<>>
  /\ tVMFile' = Append(tVMFile, Epilogue)
  /\ tHostFile' = Append(tHostFile, Epilogue)
  /\ tLuaFile' = Append(tLuaFile, Epilogue)
  /\ pc' = "generated"
  /\ UNCHANGED <<tree, hashSeed, sourceReadable, todo, functionRenames>>

\* lines 886-898: the traversal is over; the epilogues are written
Generate_Close ==
  /\ pc = "traverse"
  /\ todo = <<>>
  /\ tHostFile' = Append(tHostFile, Epilogue)
  /\ tLuaFile' = Append(tLuaFile, Epilogue)
  /\ pc' = "generated"
  /\ UNCHANGED <<tree, hashSeed, sourceReadable, todo, functionRenames, tVMFile>>

\* lines 1097-1107: main() reads imgui_gen.h back and rewrites it
Main_Substitute ==
  /\ pc = "generated"
  /\ tVMFile' = SeqMap(SubstituteUnit, tVMFile)
  /\ pc' = "done"
  /\ UNCHANGED <<tree, hashSeed, sourceReadable, todo, functionRenames, tHostFile, tLuaFile>>

Next ==
  \/ Generate_Open
  \/ DetectOverloads
  \/ Traverse_OtherFile
  \/ Traverse_Skipped
  \/ Traverse_Function
  \/ Traverse_Typedef
  \/ Traverse_Struct
  \/ Traverse_Enum
  \/ Traverse_Container
  \/ Traverse_Unhandled
  \/ Generate_Close
  \/ Main_Substitute

Spec == Init /\ [][Next]_vars

(***************************************************************************)
(* What the claims speak of: the declarations of the input, the units a    *)
(* declaration left in a stream, and which declarations the run reaches.   *)
(***************************************************************************)
Written == pc \in {"generated", "done"}

Declarations == Cursors(tree)

\* the cursor found from c along path, a child's position at each step
RECURSIVE Descend(_, _)
Descend(c, path) ==
  IF path = <<>> THEN c ELSE Descend(get_children(c)[Head(path)], Tail(path))

\* the declaration located at path
CursorAt(path) == Descend(tree, path)

Parent(c) == CursorAt(SubSeq(c.loc, 1, Len(c.loc) - 1))

Streams == <<tVMFile, tHostFile, tLuaFile>>

\* the positions in a stream of the units emitted for c
UnitsOf(stream, c) == {i \in 1..Len(stream) : stream[i].src = c.loc}

\* _traverse gets to c: every cursor above c is one it walks through
RECURSIVE Traversed(_)
Traversed(c) ==
  \/ c.loc = <<>>
  \/ /\ Parent(c).in_file
     /\ ~IsSkippedOrTemplate(Parent(c))
     /\ ~IsFunction(Parent(c))
     /\ Parent(c).kind \notin {"TYPEDEF_DECL", "STRUCT_DECL", "UNION_DECL", "ENUM_DECL"}
     /\ Traversed(Parent(c))

\* c is declared directly in a struct or union definition that is emitted
Member(c) ==
  /\ c.loc # <<>>
  /\ Parent(c).kind \in {"STRUCT_DECL", "UNION_DECL"}
  /\ Parent(c).is_definition
  /\ Parent(c).in_file
  /\ ~IsSkippedOrTemplate(Parent(c))
  /\ Traversed(Parent(c))

\* c is handed to the emitters: by _traverse, or as a member
ReachedDecl(c) == (c.loc # <<>> /\ c.in_file /\ Traversed(c)) \/ Member(c)

IsOperator(c) == Contains(c.spelling, <<"o","p","e","r","a","t","o","r">>)

\* the struct part of a display name
ScopePrefix(c) ==
  IF Parent(c).kind \in {"STRUCT_DECL", "UNION_DECL"}
  THEN Parent(c).spelling \o <<"_">> ELSE <<>>

\* the units of a stream that define or declare a symbol
NamedUnits(stream) ==
  {i \in 1..Len(stream) :
     /\ stream[i].k = "function"
     /\ ~("commented" \in DOMAIN stream[i] /\ stream[i].commented)}

Range(seq) == {seq[i] : i \in 1..Len(seq)}

\* the wrapper units that are functions or methods, with their declaration
IsWrapperOf(u, c) == u.k = "function" /\ c.loc = u.src /\ IsFunction(c)

\* C1: within each of the three streams, no two units emitted for different
\* non-excluded declarations of the same scope carry the same display name.
C1_UniqueDisplayNames ==
  \A s \in 1..3 :
    \A i, j \in NamedUnits(Streams[s]) :
      ( /\ i < j
        /\ SubSeq(Streams[s][i].src, 1, Len(Streams[s][i].src) - 1)
             = SubSeq(Streams[s][j].src, 1, Len(Streams[s][j].src) - 1)
        /\ CursorAt(Streams[s][i].src).usr # CursorAt(Streams[s][j].src).usr
        /\ ~IsSkipped(CursorAt(Streams[s][i].src))
        /\ ~IsSkipped(CursorAt(Streams[s][j].src)) )
      => Streams[s][i].name # Streams[s][j].name

C3_ExcludedSilent ==
  \A c \in Declarations :
    ( /\ c.kind \in {"FUNCTION_DECL", "CXX_METHOD", "CONSTRUCTOR",
                     "STRUCT_DECL", "UNION_DECL"}
      /\ IsSkipped(c) )
    => \A s \in 1..3 : UnitsOf(Streams[s], c) = {}

\* the names of the structs and namespaces around c, outermost first
RECURSIVE Scope(_)
Scope(c) ==
  IF c.loc = <<>> THEN <<>>
  ELSE Scope(Parent(c))
       \o (IF Parent(c).kind \in {"STRUCT_DECL", "NAMESPACE"}
           THEN <<Parent(c).spelling>> ELSE <<>>)

\* location p comes before location q in the depth-first traversal
Before(p, q) ==
  \E n \in 0..Len(p) :
    /\ n <= Len(q)
    /\ SubSeq(p, 1, n) = SubSeq(q, 1, n)
    /\ IF n = Len(p) THEN Len(q) > n
       ELSE n < Len(q) /\ p[n + 1] < q[n + 1]

\* the functions and methods the resolver groups; operators are in no group
Grouped(c) == IsFunction(c) /\ ~StartsWith(c.spelling, <<"o","p","e","r","a","t","o","r">>)

\* the overload group of c: the declarations of c's name in c's scope
GroupOf(c) ==
  {d \in Declarations :
     Grouped(d) /\ Scope(d) = Scope(c) /\ d.spelling = c.spelling}

\* where the symbol usr is first declared among the declarations G
FirstLoc(usr, G) ==
  CHOOSE l \in {d.loc : d \in {e \in G : get_usr(e) = usr}} :
    \A d \in G : get_usr(d) = usr => (d.loc = l \/ Before(l, d.loc))

\* the symbols of the group G that the traversal meets before c's
Earlier(c, G) ==
  {u \in {get_usr(d) : d \in G} : Before(FirstLoc(u, G), FirstLoc(get_usr(c), G))}

\* what the rename table holds for c, a member of the group G
RenamedWithin(c, G) ==
  IF Cardinality({get_usr(d) : d \in G}) >= 2
  THEN /\ DictHas(functionRenames, get_usr(c))
       /\ DictGet(functionRenames, get_usr(c))
            = c.spelling \o IntToStr(Cardinality(Earlier(c, G)) + 1)
  ELSE ~DictHas(functionRenames, get_usr(c))

\* C4: after detectOverloads the rename table has an entry for a function or
\* method exactly if its group, counted by usr, has two members or more; the
\* entry of the i-th member in traversal order (0-based) is its name followed
\* by i+1; nothing else has an entry.
C4_RenameTable ==
  pc \notin {"start", "detect"} =>
    /\ \A c \in Declarations : Grouped(c) => RenamedWithin(c, GroupOf(c))
    /\ \A i \in 1..Len(functionRenames) :
         \E c \in Declarations : Grouped(c) /\ get_usr(c) = functionRenames[i].k

\* two overloads are renamed Foo1 and Foo2 in traversal order next to a
\* function that keeps its name, and all of them are written out
C4_Witness ==
  /\ pc = "done"
  /\ \E c, d, e \in Declarations :
       /\ Grouped(c) /\ Grouped(d) /\ Grouped(e)
       /\ Before(c.loc, d.loc)
       /\ c.spelling = <<"F","o","o">> /\ d.spelling = <<"F","o","o">>
       /\ DictHas(functionRenames, get_usr(c))
       /\ DictGet(functionRenames, get_usr(c)) = <<"F","o","o","1">>
       /\ DictHas(functionRenames, get_usr(d))
       /\ DictGet(functionRenames, get_usr(d)) = <<"F","o","o","2">>
       /\ ~DictHas(functionRenames, get_usr(e))
       /\ UnitsOf(tLuaFile, e) # {}

\* C5: in every emitted wrapper function, each pointer-typed parameter of
\* the wrapper that has no default value has a nil check, and the nil check
\* stands before the call of the native export, which is the last statement.
C5_PointerNilChecks ==
  \A i \in 1..Len(tLuaFile) :
    IsWrapperOf(tLuaFile[i], CursorAt(tLuaFile[i].src)) =>
      /\ tLuaFile[i].body[Len(tLuaFile[i].body)].s = "call"
      /\ \A p \in Range(CursorAt(tLuaFile[i].src).args) :
           ( /\ luaParameterSpelling(p, TRUE) \in Range(tLuaFile[i].parameters)
             /\ ResolvedKind(p.type) = "POINTER"
             /\ p.default = <<>> )
           => \E m \in 1..(Len(tLuaFile[i].body) - 1) :
                /\ tLuaFile[i].body[m].s = "nil_check"
                /\ tLuaFile[i].body[m].param = luaParameterSpelling(p, TRUE)

\* C6: for every emitted function with a parameter named ctx, the wrapper's
\* own parameters leave it out, and the wrapper's call of the native export
\* passes one argument for every parameter the export declares.
C6_ContextArgument ==
  \A c \in Declarations :
    (IsFunction(c) /\ \E p \in Range(c.args) : p.spelling = <<"c","t","x">>) =>
      \A i \in UnitsOf(tLuaFile, c) :
        /\ \A p \in Range(c.args) :
             p.spelling = <<"c","t","x">>
               => luaParameterSpelling(p, TRUE) \notin Range(tLuaFile[i].parameters)
        /\ \A j \in UnitsOf(tHostFile, c) :
             Len(tLuaFile[i].body[Len(tLuaFile[i].body)].call.args)
               = Len(tHostFile[j].parameters)

\* the wrapper units of constructor c, in the order they were written
ConstructorWrappers(c) == SelectSeq(tLuaFile, LAMBDA u : u.src = c.loc)

\* the wrapper body fills every field from its argument and returns the result
Populates(u) ==
  /\ u.body # <<>>
  /\ u.body[Len(u.body)].s = "return_local"
  /\ \A n \in 1..Len(u.parameters) :
       \E m \in 1..Len(u.body) :
         /\ u.body[m].s = "set_field"
         /\ u.body[m].field = u.parameters[n]
         /\ u.body[m].value = u.parameters[n]

\* C7: once the files are written, every constructor of an emitted struct T
\* that is neither excluded nor in skip_constructors has exactly two
\* wrappers, M.T and M.TPtr; without arguments they return a new T and a new
\* T[1]; with arguments both fill the fields from the arguments and return
\* the result.
C7_ConstructorWrappers ==
  Written =>
    \A c \in Declarations :
      ( /\ c.kind = "CONSTRUCTOR"
        /\ Member(c)
        /\ ~IsSkippedOrTemplate(c)
        /\ c.spelling \notin skip_constructors )
      => /\ Len(ConstructorWrappers(c)) = 2
         /\ ConstructorWrappers(c)[1].name = <<"M",".">> \o c.spelling
         /\ ConstructorWrappers(c)[2].name = <<"M",".">> \o c.spelling \o <<"P","t","r">>
         /\ IF c.args = <<>>
            THEN /\ ConstructorWrappers(c)[1].body
                      = <<[s |-> "return_new", ctype |-> c.spelling]>>
                 /\ ConstructorWrappers(c)[2].body
                      = <<[s |-> "return_new", ctype |-> c.spelling \o <<"[","1","]">>]>>
            ELSE /\ Populates(ConstructorWrappers(c)[1])
                 /\ Populates(ConstructorWrappers(c)[2])

\* the default guards of wrapper u for the parameter called name
GuardsFor(u, name) ==
  {m \in 1..Len(u.body) : u.body[m].s = "default" /\ u.body[m].param = name}

\* C8: for every entry (parameter, literal) of getLuaFunctionOptionalParams,
\* the wrapper has the guard of that parameter with exactly that literal as
\* the value assigned, and no guard at all when the literal is nil.
C8_DefaultGuards ==
  \A i \in 1..Len(tLuaFile) :
    IsWrapperOf(tLuaFile[i], CursorAt(tLuaFile[i].src)) =>
      \A e \in Range(getLuaFunctionOptionalParams(CursorAt(tLuaFile[i].src))) :
        IF e.v = <<"n","i","l">>
        THEN GuardsFor(tLuaFile[i], e.k) = {}
        ELSE /\ Cardinality(GuardsFor(tLuaFile[i], e.k)) = 1
             /\ \A m \in GuardsFor(tLuaFile[i], e.k) : tLuaFile[i].body[m].value = e.v

\* the operands of a |-separated expression, without the blanks around them
Operands(s) == SeqMap(Strip, Split(s, "|"))

\* what C9 expects of the operands: the constants of the API get the module
Qualified(operands) ==
  [n \in 1..Len(operands) |->
     IF StartsWith(operands[n], <<"I","m">>) THEN <<"M",".">> \o operands[n] ELSE operands[n]]

\* C9: for every integer or enum parameter of an emitted wrapper whose
\* default is a |-separated list, the guard's value has the same operands
\* in the same order, those starting with Im behind "M." and the others
\* unchanged.
C9_FlagDefaults ==
  \A i \in 1..Len(tLuaFile) :
    IsWrapperOf(tLuaFile[i], CursorAt(tLuaFile[i].src)) =>
      \A p \in Range(CursorAt(tLuaFile[i].src).args) :
        ( /\ ResolvedKind(p.type) \in {"INT", "UINT", "ENUM", "LONGLONG", "ULONGLONG"}
          /\ HasScannedDefault(get_tokens(CursorAt(tLuaFile[i].src)), p)
          /\ Contains(ScannedDefault(get_tokens(CursorAt(tLuaFile[i].src)), p), <<"|">>) )
        => /\ GuardsFor(tLuaFile[i], luaParameterSpelling(p, TRUE)) # {}
           /\ \A m \in GuardsFor(tLuaFile[i], luaParameterSpelling(p, TRUE)) :
                Operands(tLuaFile[i].body[m].value)
                  = Qualified(Operands(
                      ScannedDefault(get_tokens(CursorAt(tLuaFile[i].src)), p)))

\* what the dict of compiled defaults holds for the sentinel defaults of c
SentinelsCompiled(c, parameter_opt) ==
  \A p \in Range(c.args) :
    ( /\ ResolvedKind(p.type) \in {"FLOAT", "DOUBLE"}
      /\ DictHas(parameter_opt, luaParameterSpelling(p, TRUE)) )
    => /\ p.default = <<Id(<<"F","L","T","_","M","A","X">>)>>
            => DictGet(parameter_opt, luaParameterSpelling(p, TRUE)) = <<"m","a","t","h",".","h","u","g","e">>
       /\ p.default = <<Id(<<"F","L","T","_","M","I","N">>)>>
            => DictGet(parameter_opt, luaParameterSpelling(p, TRUE)) = <<"-","F","L","T","_","M","I","N">>

\* C10: for every float or double parameter (typedefs resolved) of an emitted
\* wrapper that has an entry in getLuaFunctionOptionalParams, a default of
\* FLT_MAX is compiled to math.huge and a default of FLT_MIN to -FLT_MIN.
C10_FloatSentinels ==
  \A i \in 1..Len(tLuaFile) :
    IsWrapperOf(tLuaFile[i], CursorAt(tLuaFile[i].src)) =>
      SentinelsCompiled(CursorAt(tLuaFile[i].src),
                        getLuaFunctionOptionalParams(CursorAt(tLuaFile[i].src)))

\* a wrapper is written whose double parameter defaults to FLT_MAX and is
\* guarded with math.huge
C10_Witness ==
  /\ pc = "done"
  /\ \E i \in 1..Len(tLuaFile) :
       /\ IsWrapperOf(tLuaFile[i], CursorAt(tLuaFile[i].src))
       /\ \E p \in Range(CursorAt(tLuaFile[i].src).args) :
            /\ p.type.kind = "DOUBLE"
            /\ p.default = <<Id(<<"F","L","T","_","M","A","X">>)>>
            /\ \E m \in GuardsFor(tLuaFile[i], luaParameterSpelling(p, TRUE)) :
                 tLuaFile[i].body[m].value = <<"m","a","t","h",".","h","u","g","e">>

(***************************************************************************)
(* C11: the shape of the three files and what a step may do to them.       *)
(***************************************************************************)
IsPrefix(s, t) == Len(s) <= Len(t) /\ SubSeq(t, 1, Len(s)) = s

\* the prologue first and nowhere else
PrologueFirst(stream) ==
  /\ stream # <<>>
  /\ \A i \in 1..Len(stream) : stream[i] = Prologue <=> i = 1

\* the prologue first, the epilogue last, neither anywhere else
Bounded(stream) ==
  /\ PrologueFirst(stream)
  /\ \A i \in 1..Len(stream) : stream[i] = Epilogue <=> i = Len(stream)

\* the prologue first and no epilogue at all
OpenEnded(stream) ==
  /\ PrologueFirst(stream)
  /\ \A i \in 1..Len(stream) : stream[i] # Epilogue

\* t holds the units of s, one for one, in the same order
SameUnits(s, t) ==
  /\ Len(t) = Len(s)
  /\ \A i \in 1..Len(s) : t[i].k = s[i].k /\ t[i].src = s[i].src

\* C11 as stated: every step leaves what the three files already hold in
\* place, only appending to them, and in a completed run each of the three
\* files has the prologue first and the epilogue last.
C11_AppendOnlyBounded ==
  [][ /\ IsPrefix(tVMFile, tVMFile')
      /\ IsPrefix(tHostFile, tHostFile')
      /\ IsPrefix(tLuaFile, tLuaFile')
      /\ pc' = "done" =>
           Bounded(tVMFile') /\ Bounded(tHostFile') /\ Bounded(tLuaFile') ]_vars

\* C11, amended: every step only appends to imguiApiHostGenerated.cpp and
\* imgui_gen.lua, and to imgui_gen.h while generate() runs; the step of
\* main() after generate() writes imgui_gen.h anew, with the same units in
\* the same order.  Once generate() has returned, the two former files have
\* the prologue first and the epilogue last, and imgui_gen.h has the
\* prologue first and no epilogue.
C11_AppendOnlyUntilSubstitution ==
  [][ /\ IsPrefix(tHostFile, tHostFile')
      /\ IsPrefix(tLuaFile, tLuaFile')
      /\ IF pc = "generated"
         THEN SameUnits(tVMFile, tVMFile')
         ELSE IsPrefix(tVMFile, tVMFile')
      /\ pc' \in {"generated", "done"} =>
           /\ Bounded(tHostFile') /\ Bounded(tLuaFile')
           /\ OpenEnded(tVMFile') ]_vars

\* a completed run whose imgui_gen.h holds a prototype that main() rewrote
C11_Witness ==
  /\ pc = "done"
  /\ \E i \in 1..Len(tVMFile) :
       /\ tVMFile[i].k = "function"
       /\ tVMFile[i].resType = <<"I","m","V","e","c","2","_","C">>
       /\ CursorAt(tVMFile[i].src).result_type.spelling = <<"I","m","V","e","c","2">>

\* the function units a stream holds for the function or method c
FunctionUnitsOf(stream, c) ==
  {i \in 1..Len(stream) : stream[i].k = "function" /\ stream[i].src = c.loc}

\* C12: the run writes what every run over the same tree writes: in each of
\* the three streams, the unit of a function with an unnamed parameter names
\* that parameter as any other run does, whatever hash() returns in it.
C12_SameOutputEveryRun ==
  \A c \in {d \in Declarations : IsFunction(d)} :
    \A p \in {q \in Range(c.args) : q.spelling = <<>>} :
      \A run \in 0..MaxHashSeed :
        \A s \in 1..3 :
          \A i \in FunctionUnitsOf(Streams[s], c) :
            \E q \in Range(Streams[s][i].parameters) :
              EndsWith(q, <<"u","n","n","a","m","e","d","_","a","r","g","_">> \o IntToStr(hashIn(run, p)))

\* what C13 expects of the dict of compiled defaults of c: an entry for
\* every parameter whose name token is directly followed by `=`, compiled
\* from the tokens behind that `=` up to the end the scan finds
DefaultsCaptured(c, token, parameter_opt) ==
  \A p \in Range(c.args) :
    \A n \in 0..(Len(token) - 2) :
      ( /\ p.spelling # <<>>
        /\ token[n + 1] = Id(p.spelling)
        /\ token[n + 2] = Punct(<<"=">>) )
      => /\ DictHas(parameter_opt, luaParameterSpelling(p, TRUE))
         /\ DictGet(parameter_opt, luaParameterSpelling(p, TRUE))
              = luaifyValue(p, DefaultText(token, n + 2,
                                           ScanDefaultEnd(token, n + 2, 0)))

\* C13: for every emitted wrapper and every parameter p of its declaration
\* whose name token is directly followed by `=` in the token stream,
\* getLuaFunctionOptionalParams has an entry for p, compiled from exactly
\* the tokens behind that `=` up to the first comma at depth zero or the
\* first unmatched closing bracket, also when an identifier spelled as p
\* occurs earlier in the token stream.
C13_DefaultsCaptured ==
  \A i \in 1..Len(tLuaFile) :
    IsWrapperOf(tLuaFile[i], CursorAt(tLuaFile[i].src)) =>
      DefaultsCaptured(CursorAt(tLuaFile[i].src),
                       get_tokens(CursorAt(tLuaFile[i].src)),
                       getLuaFunctionOptionalParams(CursorAt(tLuaFile[i].src)))

\* a `+` that is a sign: the first token, or behind an operator or an
\* opening bracket
IsUnaryPlus(toks, j) ==
  /\ toks[j] = Punct(<<"+">>)
  /\ j = 1 \/ ( /\ toks[j - 1].kind = "PUNCTUATION"
                /\ toks[j - 1].spelling \notin {<<")">>, <<"]">>} )

RECURSIVE DropUnaryPlus(_, _)
DropUnaryPlus(toks, j) ==
  IF j > Len(toks) THEN <<>>
  ELSE (IF IsUnaryPlus(toks, j) THEN <<>> ELSE <<toks[j]>>)
       \o DropUnaryPlus(toks, j + 1)

\* a literal without its float suffix
DropSuffix(t) ==
  IF t.kind = "LITERAL" /\ EndsWith(t.spelling, <<"f">>)
  THEN [t EXCEPT !.spelling = SubSeq(@, 1, Len(@) - 1)]
  ELSE t

\* the characters of the tokens, blanks apart
Characters(toks) == Flatten([j \in 1..Len(toks) |-> toks[j].spelling])

Unspaced(s) == Replace(s, <<" ">>, <<>>)

\* what C14 expects of the compiled default of p
PlainLiteral(p) ==
  IF ResolvedKind(p.type) \in {"FLOAT", "DOUBLE"}
  THEN Characters(SeqMap(DropSuffix, DropUnaryPlus(p.default, 1)))
  ELSE Characters(DropUnaryPlus(p.default, 1))

\* the defaults C14 speaks of: integer, enum, float and double parameters
\* whose default names no sentinel macro and is not one of the expressions
\* the compiler rewrites by another rule (a constant of the API, sizeof)
IsPlainDefault(p) ==
  /\ p.default # <<>>
  /\ \/ /\ ResolvedKind(p.type) \in {"FLOAT", "DOUBLE"}
        /\ ~Contains(Characters(p.default), <<"F","L","T","_","M","A","X">>)
        /\ ~Contains(Characters(p.default), <<"F","L","T","_","M","I","N">>)
     \/ /\ ResolvedKind(p.type) \in {"INT", "UINT", "ENUM", "LONGLONG", "ULONGLONG"}
        /\ ~StartsWith(Characters(DropUnaryPlus(p.default, 1)), <<"I","m">>)
        /\ ~StartsWith(Characters(DropUnaryPlus(p.default, 1)), <<"s","i","z","e","o","f">>)

PlainDefaultsKept(c, parameter_opt) ==
  \A p \in Range(c.args) :
    (IsPlainDefault(p) /\ DictHas(parameter_opt, luaParameterSpelling(p, TRUE)))
    => Unspaced(DictGet(parameter_opt, luaParameterSpelling(p, TRUE))) = PlainLiteral(p)

\* C14: for every integer, enum, float or double parameter of an emitted
\* wrapper whose default holds no sentinel macro, the compiled literal is
\* the source expression (blanks apart) without its unary `+` signs and, for
\* float and double, without the suffix f of its literals; every other
\* character, a binary `+` and an f inside an identifier included, is kept.
C14_PlainDefaultsKept ==
  \A i \in 1..Len(tLuaFile) :
    IsWrapperOf(tLuaFile[i], CursorAt(tLuaFile[i].src)) =>
      PlainDefaultsKept(CursorAt(tLuaFile[i].src),
                        getLuaFunctionOptionalParams(CursorAt(tLuaFile[i].src)))

\* where a stream holds the units of functions and methods
FunctionUnits(stream) ==
  {i \in 1..Len(stream) :
     stream[i].k = "function" /\ IsFunction(CursorAt(stream[i].src))}

\* C15: in each of the three streams the units of functions and methods
\* stand in the depth-first order of their declarations, so that the unit
\* of A precedes the unit of B in one stream exactly when it does in the
\* other two.
C15_Lockstep ==
  \A s \in 1..3 :
    \A i, j \in FunctionUnits(Streams[s]) :
      i < j => Before(Streams[s][i].src, Streams[s][j].src)

\* a completed run over a struct with a field declared between two methods:
\* imgui_gen.h holds the field before both prototypes, and each of the
\* three streams holds the unit of the first method before the second's
C15_Witness ==
  /\ pc = "done"
  /\ \E i, j \in FunctionUnits(tVMFile) :
       /\ i < j
       /\ \E f \in 1..Len(tVMFile) :
            /\ tVMFile[f].k = "field"
            /\ f < i
            /\ Before(tVMFile[i].src, tVMFile[f].src)
            /\ Before(tVMFile[f].src, tVMFile[j].src)
       /\ \A s \in 2..3 :
            \E m, n \in FunctionUnits(Streams[s]) :
              /\ m < n
              /\ Streams[s][m].src = tVMFile[i].src
              /\ Streams[s][n].src = tVMFile[j].src

\* the text of a unit before or after main()'s pass over imgui_gen.h
AsWritten(text) == {text, SubstituteVec(text)}

\* the value expressions of an enum constant
ValueExprs(ch) ==
  {n \in 1..Len(ch.children) :
     ch.children[n].kind \in {"UNEXPOSED_EXPR", "BINARY_OPERATOR"}}

\* the value an enum constant is declared with when its source text is at
\* hand
ValueInSource(ch) ==
  IF ValueExprs(ch) = {} THEN <<>>
  ELSE <<" ","="," ">> \o Strip(ch.children[CHOOSE n \in ValueExprs(ch) :
                                     \A m \in ValueExprs(ch) : n <= m].content)

\* C16: whether or not the source text can be read, every typedef written
\* to imgui_gen.h is the text of its declaration and every enum constant
\* is declared with the value its declaration gives it: the declarations
\* written are those of a run that can read the source.
C16_UnreadableSourceHarmless ==
  \A i \in 1..Len(tVMFile) :
    /\ ( /\ tVMFile[i].k = "typedef"
         /\ CursorAt(tVMFile[i].src).kind = "TYPEDEF_DECL" )
       => tVMFile[i].text \in AsWritten(Strip(CursorAt(tVMFile[i].src).content))
    /\ tVMFile[i].k = "enum"
       => \A n \in 1..Len(tVMFile[i].constants) :
            tVMFile[i].constants[n].value
              \in AsWritten(ValueInSource(CursorAt(tVMFile[i].constants[n].src)))

\* a statement of an export function that returns from it
Returns(stmt) ==
  \/ stmt.s = "return_converted"
  \/ stmt.s = "call" /\ StartsWith(stmt.resStr, <<"r","e","t","u","r","n">>)

\* the body of a variadic export function as C17 has it
VaOrdered(body) ==
  \E a, b, e \in 1..Len(body) :
    /\ a < b /\ b < e
    /\ body[a].s = "va_start"
    /\ body[b].s \in {"call", "return_converted"}
    /\ body[b].call.args # <<>>
    /\ body[b].call.args[Len(body[b].call.args)] = <<"a","r","g","s">>
    /\ body[e].s = "va_end"
    /\ \A m \in 1..(e - 1) : ~Returns(body[m])

\* C17: in every export function written for a variadic function, va_start
\* comes first, then the forwarding call with args as its last argument,
\* then va_end, and no statement before va_end returns from the function.
C17_VaEndReached ==
  \A i \in 1..Len(tHostFile) :
    ( /\ tHostFile[i].k = "function"
      /\ \E m \in 1..Len(tHostFile[i].body) : tHostFile[i].body[m].s = "va_start" )
    => VaOrdered(tHostFile[i].body)

\* the prototype u declares the return type of the export function h of c:
\* the same name, ImVec2 and ImVec4 standing for their shadow structs, or
\* the name of a typedef of that type
DeclaresReturnTypeOf(u, h, c) ==
  \/ u.resType = SubstituteVec(h.resType)
  \/ /\ c.result_type.kind = "TYPEDEF"
     /\ u.resType = c.result_type.spelling
     /\ SubstituteVec(c.result_type.canonical.spelling) = h.resType

\* C18: once main() has rewritten imgui_gen.h, the prototype of every
\* function declares the return type of its export function; where the
\* export function returns ImVec2_C or ImVec4_C, the prototype declares
\* that shadow struct (or a typedef of it).
C18_SameReturnType ==
  pc = "done" =>
    \A i \in FunctionUnits(tVMFile) :
      \A j \in FunctionUnits(tHostFile) :
        tVMFile[i].src = tHostFile[j].src
          => DeclaresReturnTypeOf(tVMFile[i], tHostFile[j], CursorAt(tVMFile[i].src))

\* the constants of the enums the input declares
EnumConstants == {d \in Declarations : d.kind = "ENUM_CONSTANT_DECL"}

\* the wrapper stream defines name for the enum constant x
DefinedFor(name, x) ==
  \E n \in 1..Len(tLuaFile) :
    /\ tLuaFile[n].k = "enum_constant"
    /\ tLuaFile[n].src = x.loc
    /\ tLuaFile[n].lname = name

\* C19: in a completed run, every name M.<X> in the value of a wrapper's
\* default guard, X being an enum constant declared in the input, is the
\* name the enum table of the wrapper stream defines for X.
C19_QualifiedNamesDefined ==
  pc = "done" =>
    \A i \in 1..Len(tLuaFile) :
      IsWrapperOf(tLuaFile[i], CursorAt(tLuaFile[i].src)) =>
        \A m \in 1..Len(tLuaFile[i].body) :
          tLuaFile[i].body[m].s = "default" =>
            \A x \in EnumConstants :
              <<"M",".">> \o x.spelling \in Range(Operands(tLuaFile[i].body[m].value))
                => DefinedFor(<<"M",".">> \o x.spelling, x)

\* name, or name without its leading underscore
UnderscoreOff(name) ==
  {name} \cup (IF name # <<>> /\ name[1] = "_" THEN {Tail(name)} ELSE {})

\* C20: the two wrappers of a constructor take as many parameters as the
\* constructor, in its order, and the name at each position is the name of
\* the constructor's parameter at that position, with or without its
\* leading underscore.
C20_ConstructorParameters ==
  \A i \in 1..Len(tLuaFile) :
    ( /\ tLuaFile[i].k = "function"
      /\ CursorAt(tLuaFile[i].src).kind = "CONSTRUCTOR" )
    => /\ Len(tLuaFile[i].parameters) = Len(CursorAt(tLuaFile[i].src).args)
       /\ \A n \in 1..Len(tLuaFile[i].parameters) :
            tLuaFile[i].parameters[n]
              \in UnderscoreOff(
                    luaParameterSpelling(CursorAt(tLuaFile[i].src).args[n], FALSE))
====
